---- MODULE Spec2Model ----
(***************************************************************************)
(* weekly-report (src/main.py): a Flask application that stores weekly     *)
(* reports and exports them to Word documents by substituting              *)
(* {{NAME}}, {{DATE}}, {{SUMMARY}}, {{PLAN}} in an uploaded template.      *)
(*                                                                         *)
(* Text is a sequence of one-character strings.  A paragraph is the        *)
(* sequence of its runs, a run is its text.  Three specifications share    *)
(* the module:                                                             *)
(*   SpecRender  render_docx_template on bounded templates and contexts    *)
(*   SpecFormat  the settings form's pattern and str.format in export      *)
(*   Spec        the application: settings, uploads, concurrent exports    *)
(* index, edit_report and delete_report write no file and no setting; an   *)
(* export reads its report once, at its start.  They are left out of Spec. *)
(***************************************************************************)
EXTENDS Integers, Sequences, FiniteSets, TLC

VARIABLES
    tmpl,        \* SpecRender: the document stored at template_path
    context,     \* SpecRender: the context passed to render_docx_template
    out,         \* SpecRender: the document saved by the first render, or None
    out2,        \* SpecRender: the document saved by rendering out again, or None
    fmtCfg,      \* SpecFormat: ExportConfig.filename_pattern
    fmtReport,   \* SpecFormat: the report of the last export, or None
    fmtOut,      \* SpecFormat: what the last format call produced, or None
    reports,     \* Spec: the rows of weekly_reports, in the order of their ids
    cfg,         \* Spec: ExportConfig row 1, filename_pattern
    files,       \* Spec: the files of UPLOAD_DIR, filename -> content
    spc,         \* Spec: the position of the settings request
    spend,       \* Spec: the pattern and upload a running settings request holds
    pc,          \* Spec: the position of each export request
    loc,         \* Spec: the local variables of each export request
    resp         \* Spec: the response sent last, and the request it answers

renderVars == <<tmpl, context, out, out2>>
fmtVars == <<fmtCfg, fmtReport, fmtOut>>
appVars == <<reports, cfg, files, spc, spend, pc, loc, resp>>
vars == <<tmpl, context, out, out2, fmtCfg, fmtReport, fmtOut,
          reports, cfg, files, spc, spend, pc, loc, resp>>

\* an absent value is the empty sequence, a present value v is <<v>>
None == <<>>
Some(v) == <<v>>
The(o) == o[1]

(***************************************************************************)
(* Bounds of the model.                                                    *)
(***************************************************************************)
MaxRuns == 2        \* runs of the paragraph under test
MaxSections == 1    \* sections of a template, each with a header and a footer
MaxPatPieces == 2   \* pieces a filename pattern typed into the form is made of
MaxReports == 2     \* rows of weekly_reports
NumRequests == 2    \* export requests made, each served once

(***************************************************************************)
(* Text helpers: Python str operations on sequences of characters.         *)
(***************************************************************************)
RECURSIVE Concat(_)
Concat(ss) == IF ss = <<>> THEN <<>> ELSE Head(ss) \o Concat(Tail(ss))

\* sub in s (the first character is compared before the slice is taken)
Contains(s, sub) ==
    \/ sub = <<>>
    \/ \E i \in 1..(Len(s) - Len(sub) + 1) :
          s[i] = sub[1] /\ SubSeq(s, i, i + Len(sub) - 1) = sub

\* s.startswith(pre), s.endswith(suf)
StartsWith(s, pre) ==
    \/ pre = <<>>
    \/ /\ Len(pre) <= Len(s)
       /\ s[1] = pre[1]
       /\ SubSeq(s, 1, Len(pre)) = pre
EndsWith(s, suf) ==
    \/ suf = <<>>
    \/ /\ Len(suf) <= Len(s)
       /\ s[Len(s)] = suf[Len(suf)]
       /\ SubSeq(s, Len(s) - Len(suf) + 1, Len(s)) = suf

\* s.replace(old, new), old not empty: left to right, occurrences do not overlap,
\* the text put in is not scanned again
RECURSIVE Replace(_, _, _)
Replace(s, old, new) ==
    IF Len(s) < Len(old) THEN s
    ELSE IF s[1] = old[1] /\ SubSeq(s, 1, Len(old)) = old
         THEN new \o Replace(SubSeq(s, Len(old) + 1, Len(s)), old, new)
         ELSE <<Head(s)>> \o Replace(Tail(s), old, new)

Digits == <<"0", "1", "2", "3", "4", "5", "6", "7", "8", "9">>
Digit(n) == Digits[n + 1]

\* date.isoformat(): %04d-%02d-%02d
isoformat(d) ==
    << Digit(d.y \div 1000), Digit((d.y \div 100) % 10), Digit((d.y \div 10) % 10),
       Digit(d.y % 10), "-", Digit(d.m \div 10), Digit(d.m % 10), "-",
       Digit(d.d \div 10), Digit(d.d % 10) >>

(***************************************************************************)
(* The context of an export (export_report, lines 235-240): a dict, kept   *)
(* as the sequence of its items in insertion order.                        *)
(***************************************************************************)
kNAME == <<"N", "A", "M", "E">>
kDATE == <<"D", "A", "T", "E">>
kSUMMARY == <<"S", "U", "M", "M", "A", "R", "Y">>
kPLAN == <<"P", "L", "A", "N">>
Keys == <<kNAME, kDATE, kSUMMARY, kPLAN>>

\* x or "": the handlers store "" for a field left empty
OrEmpty(x) == IF x = <<>> THEN <<>> ELSE x

ExportContext(report) ==
    << <<kNAME, OrEmpty(report.name)>>,
       <<kDATE, isoformat(report.date)>>,
       <<kSUMMARY, OrEmpty(report.summary)>>,
       <<kPLAN, OrEmpty(report.plan)>> >>

Placeholder(key) == <<"{", "{">> \o key \o <<"}", "}">>

(***************************************************************************)
(* render_docx_template                                                    *)
(***************************************************************************)
\* paragraph.text: the runs' text, concatenated
ParagraphText(paragraph) == Concat(paragraph)

\* paragraph.text = new_text: the runs are dropped and one run holds the text
SetParagraphText(paragraph, new_text) == << new_text >>

\* for key, value in context.items(): if placeholder in new_text: replace
RECURSIVE ReplaceItems(_, _)
ReplaceItems(new_text, items) ==
    IF items = <<>> THEN new_text
    ELSE LET placeholder == Placeholder(Head(items)[1])
             value == Head(items)[2]
         IN ReplaceItems(IF Contains(new_text, placeholder)
                         THEN Replace(new_text, placeholder, value)
                         ELSE new_text,
                         Tail(items))

\* a bug: every paragraph is written back, changed or not
ReplaceAlwaysWrites(paragraph, ctx) ==
    IF ParagraphText(paragraph) = <<>> THEN paragraph
    ELSE SetParagraphText(paragraph, ReplaceItems(ParagraphText(paragraph), ctx))

\* a bug: run by run, as the docstring says the code once did
ReplacePerRun(paragraph, ctx) ==
    [i \in 1..Len(paragraph) |-> ReplaceItems(paragraph[i], ctx)]

\* a bug: the new text is added as one more run, changed or not, and the old
\* runs stay
ReplaceAppends(paragraph, ctx) ==
    IF ParagraphText(paragraph) = <<>> THEN paragraph
    ELSE Append(paragraph, ReplaceItems(ParagraphText(paragraph), ctx))

\* a bug: the keys are taken in the reverse order
ReplaceReversed(paragraph, ctx) ==
    LET text == ParagraphText(paragraph)
        new_text == ReplaceItems(text, [i \in 1..Len(ctx) |-> ctx[Len(ctx) + 1 - i]])
    IN IF text = <<>> THEN paragraph
       ELSE IF new_text # text THEN SetParagraphText(paragraph, new_text)
       ELSE paragraph

replace_in_paragraph(paragraph, ctx) ==
    LET text == ParagraphText(paragraph)
        new_text == ReplaceItems(text, ctx)
    IN IF text = <<>> THEN paragraph
       ELSE IF new_text # text THEN SetParagraphText(paragraph, new_text)
       ELSE paragraph

\* a bug: a placeholder is matched over the joined text of the paragraphs
\* of a list, the result put into the first of them
ReplaceJoined(paragraphs, ctx) ==
    IF paragraphs = <<>> THEN paragraphs
    ELSE LET joined == Concat([i \in 1..Len(paragraphs) |-> ParagraphText(paragraphs[i])])
             new_text == ReplaceItems(joined, ctx)
         IN IF new_text # joined
            THEN [i \in 1..Len(paragraphs) |->
                     IF i = 1 THEN << new_text >> ELSE << >>]
            ELSE paragraphs

\* for p in <paragraphs>: replace_in_paragraph(p)
ReplaceInParagraphs(paragraphs, ctx) ==
    [i \in 1..Len(paragraphs) |-> replace_in_paragraph(paragraphs[i], ctx)]

\* for table in <tables>: for row in table.rows: for cell in row.cells:
\*     for p in cell.paragraphs: replace_in_paragraph(p)
\* a table is the sequence of its rows, a row of its cells, a cell of its paragraphs
ReplaceInTables(tables, ctx) ==
    [t \in 1..Len(tables) |->
        [r \in 1..Len(tables[t]) |->
            [c \in 1..Len(tables[t][r]) |->
                ReplaceInParagraphs(tables[t][r][c], ctx)]]]

\* a bug: the footer's loops are missing
ReplaceInSectionNoFooter(section, ctx) ==
    [header |-> [paragraphs |-> ReplaceInParagraphs(section.header.paragraphs, ctx),
                 tables |-> ReplaceInTables(section.header.tables, ctx)],
     footer |-> section.footer]

\* the body of `for section in doc.sections`
ReplaceInSection(section, ctx) ==
    [header |-> [paragraphs |-> ReplaceInParagraphs(section.header.paragraphs, ctx),
                 tables |-> ReplaceInTables(section.header.tables, ctx)],
     footer |-> [paragraphs |-> ReplaceInParagraphs(section.footer.paragraphs, ctx),
                 tables |-> ReplaceInTables(section.footer.tables, ctx)]]

\* the document render_docx_template hands to doc.save
RenderDoc(doc, ctx) ==
    [paragraphs |-> ReplaceInParagraphs(doc.paragraphs, ctx),
     tables |-> ReplaceInTables(doc.tables, ctx),
     sections |-> [s \in 1..Len(doc.sections) |-> ReplaceInSection(doc.sections[s], ctx)]]

(***************************************************************************)
(* SpecRender: the inputs of render_docx_template.                         *)
(***************************************************************************)
\* the ways to cut a text into n runs (a run may be empty)
RECURSIVE Splits(_, _)
Splits(t, n) ==
    IF n = 1 THEN { <<t>> }
    ELSE UNION { { <<SubSeq(t, 1, i)>> \o rest :
                     rest \in Splits(SubSeq(t, i + 1, Len(t)), n - 1) } :
                 i \in 0..Len(t) }

tNAME == Placeholder(kNAME)
tDATE == Placeholder(kDATE)
tSUMMARY == Placeholder(kSUMMARY)
tPLAN == Placeholder(kPLAN)

\* the texts of the paragraph under test that are cut into runs
TemplateTexts ==
    { <<>>,
      <<"a", "b">>,
      tNAME, tDATE, tPLAN,
      tNAME \o <<"{", "{", "N", "A">>,
      <<"{", "{", "N", "A">>,
      <<"{", "{", "n", "a", "m", "e", "}", "}">> }

\* the paragraphs under test: no run at all, every cut of a text into at most
\* MaxRuns runs, and two placeholders after a letter in one run
TemplateParagraphs ==
    { <<>>, << <<"n">> \o tPLAN \o tNAME >> }
    \cup UNION { Splits(t, n) : t \in TemplateTexts, n \in 1..MaxRuns }

\* the paragraph that follows the paragraph under test: the remainder of the
\* placeholder the paragraph under test ends in the middle of, if it does
NextParagraphs(p1) ==
    IF EndsWith(Concat(p1), <<"{", "{", "N", "A">>)
    THEN { << <<"M", "E", "}", "}">> >>,
           << <<"M", "E">>, <<"}", "}", "c">> >> }
    ELSE { << <<"c">>, <<"d">> >> }

Filler == << <<"t", "e">>, <<"x", "t">> >>
SplitToken == << <<"{", "{", "S", "U", "M">>, <<"M", "A", "R", "Y", "}", "}">> >>

Regions == {"body", "table", "header", "header_table", "footer", "footer_table"}

\* one table of one row and two cells: the first cell holds the paragraphs,
\* the second one empty paragraph
TablesOf(paragraphs) == << << << paragraphs, << <<>> >> >> >> >>

\* a template of nsec sections: `here` are the paragraphs of region reg (of
\* section sec, for a header or a footer), `other` those of every other region
TemplateDoc(nsec, reg, sec, here, other) ==
    LET at(r, s) == IF r = reg /\ (s = 0 \/ s = sec) THEN here ELSE other
    IN [paragraphs |-> at("body", 0),
        tables |-> TablesOf(at("table", 0)),
        sections |-> [s \in 1..nsec |->
            [header |-> [paragraphs |-> at("header", s),
                         tables |-> TablesOf(at("header_table", s))],
             footer |-> [paragraphs |-> at("footer", s),
                         tables |-> TablesOf(at("footer_table", s))]]]]

Date1 == [y |-> 2024, m |-> 5, d |-> 1]
Date2 == [y |-> 1999, m |-> 12, d |-> 31]

PlainReport == [name |-> <<"A", "l">>, date |-> Date1, summary |-> <<"s">>, plan |-> <<"p">>]

\* the rows exported: plain fields, fields left NULL, and fields whose value
\* is itself a placeholder
\* the rows exported with a paragraph of any runs: plain fields, fields left
\* empty, and fields whose values are each other's placeholder
SplitReports ==
    { PlainReport,
      [name |-> <<>>, date |-> Date2, summary |-> <<>>, plan |-> <<>>],
      [PlainReport EXCEPT !.name = tPLAN, !.plan = tNAME] }

\* the rows exported with a paragraph of one run: also one field whose value
\* is a placeholder
RenderReports ==
    SplitReports
    \cup { [PlainReport EXCEPT !.name = Placeholder(k)] : k \in {kNAME, kDATE, kSUMMARY, kPLAN} }
    \cup { [PlainReport EXCEPT !.summary = Placeholder(k)] : k \in {kNAME, kDATE, kSUMMARY, kPLAN} }
    \cup { [PlainReport EXCEPT !.plan = Placeholder(k)] : k \in {kNAME, kDATE, kSUMMARY, kPLAN} }

AppIdle ==
    /\ reports = <<>>
    /\ cfg = <<>>
    /\ files = <<>>
    /\ spc = "idle"
    /\ spend = <<>>
    /\ pc = <<>>
    /\ loc = <<>>
    /\ resp = <<>>

FmtIdle ==
    /\ fmtCfg = <<>>
    /\ fmtReport = None
    /\ fmtOut = None

RenderIdle ==
    /\ tmpl = None
    /\ context = <<>>
    /\ out = None
    /\ out2 = None

InitRender ==
    /\ \E nsec \in 1..MaxSections, reg \in Regions, sec \in 1..MaxSections,
          p1 \in TemplateParagraphs, tokens \in BOOLEAN :
          /\ sec = nsec
          /\ reg \in {"body", "table"} => sec = 1
          /\ \E p2 \in NextParagraphs(p1) :
                LET other == IF tokens THEN <<SplitToken>> ELSE <<Filler>>
                IN tmpl = TemplateDoc(nsec, reg, sec, <<p1, p2>> \o other, other)
          /\ \E report \in RenderReports :
                /\ Len(p1) <= 1 \/ report \in SplitReports
                /\ context = ExportContext(report)
    /\ out = None
    /\ out2 = None
    /\ AppIdle
    /\ FmtIdle

\* render_docx_template(template_path, context, output_path) on the template
Render ==
    /\ out = None
    /\ out' = Some(RenderDoc(tmpl, context))
    /\ UNCHANGED <<tmpl, context, out2, fmtVars, appVars>>

\* render_docx_template on the document the first call saved, same context
RenderAgain ==
    /\ out # None
    /\ out2 = None
    /\ out2' = Some(RenderDoc(The(out), context))
    /\ UNCHANGED <<tmpl, context, out, fmtVars, appVars>>

NextRender == Render \/ RenderAgain

SpecRender == InitRender /\ [][NextRender]_vars

(***************************************************************************)
(* Reading a document paragraph by paragraph.                              *)
(***************************************************************************)
\* the paragraphs of the cells of tables, row by row
CellParagraphs(tables) == Concat(Concat(Concat(tables)))

SectionParagraphs(section) ==
    section.header.paragraphs \o CellParagraphs(section.header.tables)
    \o section.footer.paragraphs \o CellParagraphs(section.footer.tables)

\* every paragraph of a document: body, body tables, then section by section
\* header, header tables, footer, footer tables
AllParagraphs(doc) ==
    doc.paragraphs \o CellParagraphs(doc.tables)
    \o Concat([s \in 1..Len(doc.sections) |-> SectionParagraphs(doc.sections[s])])

Labelled(paragraphs, label) == [i \in 1..Len(paragraphs) |-> label]

\* the region of every paragraph, in the order of AllParagraphs
AllRegions(doc) ==
    Labelled(doc.paragraphs, "body") \o Labelled(CellParagraphs(doc.tables), "table")
    \o Concat([s \in 1..Len(doc.sections) |->
         Labelled(doc.sections[s].header.paragraphs, "header")
         \o Labelled(CellParagraphs(doc.sections[s].header.tables), "header_table")
         \o Labelled(doc.sections[s].footer.paragraphs, "footer")
         \o Labelled(CellParagraphs(doc.sections[s].footer.tables), "footer_table")])

KeyIndex == 1..Len(Keys)
Value(ctx, k) == ctx[k][2]

HasPlaceholder(text) == \E k \in KeyIndex : Contains(text, Placeholder(Keys[k]))

BraceFree(text) == \A i \in 1..Len(text) : text[i] \notin {"{", "}"}

\* every brace of the text belongs to an intact placeholder of the four keys
RECURSIVE WellFormed(_)
WellFormed(text) ==
    IF text = <<>> THEN TRUE
    ELSE IF Head(text) \notin {"{", "}"} THEN WellFormed(Tail(text))
    ELSE \E k \in KeyIndex :
            /\ StartsWith(text, Placeholder(Keys[k]))
            /\ WellFormed(SubSeq(text, Len(Placeholder(Keys[k])) + 1, Len(text)))

\* one scan of the text, left to right: every intact placeholder of key k
\* becomes vals[k], every other character stays
RECURSIVE ScanSubst(_, _)
ScanSubst(text, vals) ==
    IF text = <<>> THEN <<>>
    ELSE IF Head(text) # "{" THEN <<Head(text)>> \o ScanSubst(Tail(text), vals)
    ELSE IF \E k \in KeyIndex : StartsWith(text, Placeholder(Keys[k]))
         THEN LET k == CHOOSE k \in KeyIndex : StartsWith(text, Placeholder(Keys[k]))
              IN vals[k] \o ScanSubst(SubSeq(text, Len(Placeholder(Keys[k])) + 1, Len(text)), vals)
         ELSE <<Head(text)>> \o ScanSubst(Tail(text), vals)

Values(ctx) == [k \in KeyIndex |-> Value(ctx, k)]

Rendered == out # None

(***************************************************************************)
(* Claims about render_docx_template, checked under SpecRender.            *)
(***************************************************************************)

\* C1: after render, every placeholder of the four keys that stood intact in
\* the text of one paragraph of the template is substituted, in whichever
\* region the paragraph lies (body, table cell, header, header table cell,
\* footer, footer table cell).  With values free of braces the paragraph's text
\* is the template's text with every placeholder replaced by its value (as long
\* as that text does not spell a new placeholder where a value meets the text
\* around it); with any values, a placeholder no value contains is gone from a
\* paragraph whose braces all belong to placeholders.
C1_EveryPlaceholderSubstituted ==
    Rendered =>
        LET T == AllParagraphs(tmpl)
            O == AllParagraphs(The(out))
            plain == \A k \in KeyIndex : BraceFree(Value(context, k))
            wellFormed == \A k \in KeyIndex : WellFormed(Value(context, k))
            inValue(k) == \E j \in KeyIndex :
                             Contains(Value(context, j), Placeholder(Keys[k]))
        IN
        /\ Len(O) = Len(T)
        /\ \A i \in 1..Len(T) :
              LET text == ParagraphText(T[i])
                  expected == ScanSubst(text, Values(context))
              IN /\ (plain /\ ~HasPlaceholder(expected))
                     => ParagraphText(O[i]) = expected
                 /\ (wellFormed /\ HasPlaceholder(text) /\ WellFormed(text))
                     => \A k \in KeyIndex :
                           (Contains(text, Placeholder(Keys[k])) /\ ~inValue(k))
                           => ~Contains(ParagraphText(O[i]), Placeholder(Keys[k]))

\* C1 witness: a template whose only placeholders are in a footer has been
\* rendered and the footer paragraph holds the value
C1_Witness ==
    /\ Rendered
    /\ LET T == AllParagraphs(tmpl)
           O == AllParagraphs(The(out))
           Where == AllRegions(tmpl)
       IN
       /\ \A i \in 1..Len(T) :
             HasPlaceholder(ParagraphText(T[i])) => Where[i] = "footer"
       /\ \E i \in 1..Len(T) :
             /\ Where[i] = "footer"
             /\ T[i] = << <<"{", "{", "N", "A">>, <<"M", "E", "}", "}">> >>
             /\ Value(context, 1) = <<"A", "l">>
             /\ O[i] = << <<"A", "l">> >>

\* C3: render leaves a paragraph whose text is empty or holds no placeholder
\* of the four keys as it was, runs included; a paragraph that is rewritten
\* has a text that changed and is one run holding the new text.
C3_UntouchedUnlessChanged ==
    Rendered =>
        LET T == AllParagraphs(tmpl)
            O == AllParagraphs(The(out))
            Where == AllRegions(tmpl)
        IN
        /\ Len(O) = Len(T)
        /\ \A i \in 1..Len(T) :
              /\ (ParagraphText(T[i]) = <<>> \/ ~HasPlaceholder(ParagraphText(T[i])))
                    => O[i] = T[i]
              /\ O[i] # T[i]
                    => /\ Len(O[i]) = 1
                       /\ O[i][1] # ParagraphText(T[i])
                       /\ HasPlaceholder(ParagraphText(T[i]))

\* C3 witness: a paragraph of two runs without a placeholder kept its runs,
\* a paragraph of two empty runs too, and a paragraph of two runs with a
\* placeholder became one run
C3_Witness ==
    /\ Rendered
    /\ LET T == AllParagraphs(tmpl)
           O == AllParagraphs(The(out))
           Where == AllRegions(tmpl)
       IN
       /\ \E i \in 1..Len(T) : T[i] = << <<"c">>, <<"d">> >> /\ O[i] = T[i]
       /\ \E i \in 1..Len(T) : T[i] = << <<>>, <<>> >> /\ O[i] = T[i]
       /\ \E i \in 1..Len(T) : T[i] = SplitToken /\ Len(O[i]) = 1 /\ O[i] # T[i]

\* C4: the text a paragraph has after render depends on its concatenated text
\* alone: it is the text the same paragraph would have with all its text in
\* one run, so a placeholder split over runs is replaced like an unsplit one.
C4_RunBoundaryIndependent ==
    Rendered =>
        LET T == AllParagraphs(tmpl)
            O == AllParagraphs(The(out))
            Where == AllRegions(tmpl)
        IN
        \A i \in 1..Len(T) :
            ParagraphText(O[i]) =
                ParagraphText(replace_in_paragraph(<< ParagraphText(T[i]) >>, context))

\* C4 witness: {{NA | ME}} in two runs has been replaced by the name
C4_Witness ==
    /\ Rendered
    /\ LET T == AllParagraphs(tmpl)
           O == AllParagraphs(The(out))
           Where == AllRegions(tmpl)
       IN
       /\ \E i \in 1..Len(T) :
             /\ T[i] = << <<"{", "{", "N", "A">>, <<"M", "E", "}", "}">> >>
             /\ Value(context, 1) = <<"A", "l">>
             /\ ParagraphText(O[i]) = <<"A", "l">>

\* a placeholder of key k lies across the end of text a and the start of text b
Straddles(a, b, k, n) ==
    /\ EndsWith(a, SubSeq(Placeholder(Keys[k]), 1, n))
    /\ StartsWith(b, SubSeq(Placeholder(Keys[k]), n + 1, Len(Placeholder(Keys[k]))))

\* C5: a placeholder split across two paragraphs (its first part ends one, its
\* remainder starts the next) is not replaced: after render the first still
\* ends with the first part and the next still starts with the remainder, and
\* when neither holds an intact placeholder both are exactly as they were.
C5_NotAcrossParagraphs ==
    Rendered =>
        LET T == AllParagraphs(tmpl)
            O == AllParagraphs(The(out))
            Where == AllRegions(tmpl)
        IN
        \A i \in 1..(Len(T) - 1) :
            LET a == ParagraphText(T[i])
                b == ParagraphText(T[i + 1])
            IN \A k \in KeyIndex : \A n \in 1..(Len(Placeholder(Keys[k])) - 1) :
                  Straddles(a, b, k, n) =>
                      /\ Straddles(ParagraphText(O[i]), ParagraphText(O[i + 1]), k, n)
                      /\ (~HasPlaceholder(a) /\ ~HasPlaceholder(b))
                            => (O[i] = T[i] /\ O[i + 1] = T[i + 1])

\* C5 witness: {{NA ends a paragraph, ME}} starts the next, both are unchanged
\* after a render whose context gives NAME a value
C5_Witness ==
    /\ Rendered
    /\ LET T == AllParagraphs(tmpl)
           O == AllParagraphs(The(out))
           Where == AllRegions(tmpl)
       IN
       /\ \E i \in 1..(Len(T) - 1) :
             /\ ParagraphText(T[i]) = <<"{", "{", "N", "A">>
             /\ ParagraphText(T[i + 1]) = <<"M", "E", "}", "}">>
             /\ Value(context, 1) = <<"A", "l">>
             /\ O[i] = T[i]
             /\ O[i + 1] = T[i + 1]

\* C6: if the document a render produced holds no placeholder of the four
\* keys, rendering it again with the same context changes no paragraph.
C6_Idempotent ==
    out2 # None =>
        LET O == AllParagraphs(The(out))
        IN (\A i \in 1..Len(O) : ~HasPlaceholder(ParagraphText(O[i])))
              => The(out2) = The(out)

\* C6 witness: the first render replaced a placeholder, its output holds
\* none, and the second render has run
C6_Witness ==
    /\ out2 # None
    /\ The(out) # tmpl
    /\ LET O == AllParagraphs(The(out))
       IN /\ \A i \in 1..Len(O) : ~HasPlaceholder(ParagraphText(O[i]))
          /\ \E i \in 1..Len(O) : Len(O[i]) = 2 /\ ParagraphText(O[i]) # <<>>

\* a value that is exactly the placeholder of a key later in the order is
\* replaced in turn; any other value stays as it is
RECURSIVE Final(_, _)
Final(ctx, k) ==
    IF \E j \in KeyIndex : j > k /\ Value(ctx, k) = Placeholder(Keys[j])
    THEN Final(ctx, CHOOSE j \in KeyIndex : j > k /\ Value(ctx, k) = Placeholder(Keys[j]))
    ELSE Value(ctx, k)

\* C10: the keys are substituted one after the other in the order NAME, DATE,
\* SUMMARY, PLAN: a placeholder {{K2}} brought in by the value of K1 is replaced
\* when K2 comes after K1 and stays literal when K2 comes before K1 or is K1.
\* For a paragraph whose braces all belong to placeholders and values that are
\* free of braces or exactly one placeholder, the text after render is the
\* template's text with every placeholder replaced by its key's Final value.
C10_KeyOrder ==
    Rendered =>
        LET T == AllParagraphs(tmpl)
            O == AllParagraphs(The(out))
            Where == AllRegions(tmpl)
        IN
        \A i \in 1..Len(T) :
            LET text == ParagraphText(T[i])
            IN (/\ WellFormed(text)
                /\ \A k \in KeyIndex :
                      \/ BraceFree(Value(context, k))
                      \/ \E j \in KeyIndex : Value(context, k) = Placeholder(Keys[j]))
               => ParagraphText(O[i]) =
                     ScanSubst(text, [k \in KeyIndex |-> Final(context, k)])

\* C10 witness: NAME's value is {{PLAN}} and PLAN's value is {{NAME}}; in
\* n{{PLAN}}{{NAME}} the {{PLAN}} brought in by NAME was replaced and the
\* {{NAME}} brought in by PLAN was left literal
C10_Witness ==
    /\ Rendered
    /\ LET T == AllParagraphs(tmpl)
           O == AllParagraphs(The(out))
           Where == AllRegions(tmpl)
       IN
       /\ Value(context, 1) = tPLAN
       /\ Value(context, 4) = tNAME
       /\ \E i \in 1..Len(T) :
             /\ ParagraphText(T[i]) = <<"n">> \o tPLAN \o tNAME
             /\ ParagraphText(O[i]) = <<"n">> \o tNAME \o tNAME

(***************************************************************************)
(* Filename formatting: cfg.filename_pattern.format(NAME=..., DATE=...).   *)
(* Characters outside ASCII are written by their code point: u5468 u62A5   *)
(* are the two characters before ".docx" in the default pattern, and       *)
(* u672A u547D u540D the name a report without a name gets.                *)
(***************************************************************************)
DefaultPattern ==
    <<"{", "D", "A", "T", "E", "}", "_", "{", "N", "A", "M", "E", "}", "_",
      "u5468", "u62A5", ".", "d", "o", "c", "x">>

Unnamed == <<"u672A", "u547D", "u540D">>

\* s.strip(): the blanks at both ends go
RECURSIVE Strip(_)
Strip(s) ==
    IF s = <<>> THEN s
    ELSE IF Head(s) = " " THEN Strip(Tail(s))
    ELSE IF s[Len(s)] = " " THEN Strip(SubSeq(s, 1, Len(s) - 1))
    ELSE s

\* request.form.get("filename_pattern") or <default>, then .strip()
SettingsPattern(raw) == Strip(IF raw = <<>> THEN DefaultPattern ELSE raw)

FormatFailed == [ok |-> FALSE, text |-> <<>>]
Formatted(text) == [ok |-> TRUE, text |-> text]
Then(text, r) == IF r.ok THEN Formatted(text \o r.text) ELSE r

\* the index of the first brace of s at or after i, 0 if there is none
RECURSIVE NextBrace(_, _)
NextBrace(s, i) ==
    IF i > Len(s) THEN 0
    ELSE IF s[i] \in {"{", "}"} THEN i
    ELSE NextBrace(s, i + 1)

\* the keyword arguments of the call, name -> value
Lookup(kwargs, name) ==
    IF \E a \in 1..Len(kwargs) : kwargs[a][1] = name
    THEN Formatted(kwargs[CHOOSE a \in 1..Len(kwargs) : kwargs[a][1] = name][2])
    ELSE FormatFailed

\* a bug, and what the pattern's description promises: a field that names no
\* keyword argument stays in the text as it is written
RECURSIVE FormatLenient(_, _)
FormatLenient(s, kwargs) ==
    IF s = <<>> THEN Formatted(<<>>)
    ELSE IF s[1] = "{" /\ NextBrace(s, 2) # 0 /\ s[NextBrace(s, 2)] = "}"
              /\ Lookup(kwargs, SubSeq(s, 2, NextBrace(s, 2) - 1)).ok
         THEN Then(Lookup(kwargs, SubSeq(s, 2, NextBrace(s, 2) - 1)).text,
                   FormatLenient(SubSeq(s, NextBrace(s, 2) + 1, Len(s)), kwargs))
         ELSE Then(<<s[1]>>, FormatLenient(Tail(s), kwargs))

\* str.format on a pattern without ! : . [ in its fields, with keyword
\* arguments only: {{ and }} are one literal brace; { opens a field that runs
\* to the next }, and the field's name must be a keyword argument (KeyError,
\* IndexError for an empty name); a { inside a field, a field left open and a
\* single } are a ValueError.  The value put in is not scanned.
RECURSIVE FormatText(_, _)
FormatText(s, kwargs) ==
    IF s = <<>> THEN Formatted(<<>>)
    ELSE IF s[1] = "{"
         THEN IF Len(s) >= 2 /\ s[2] = "{"
              THEN Then(<<"{">>, FormatText(SubSeq(s, 3, Len(s)), kwargs))
              ELSE LET j == NextBrace(s, 2)
                   IN IF j = 0 \/ s[j] = "{" THEN FormatFailed
                      ELSE LET value == Lookup(kwargs, SubSeq(s, 2, j - 1))
                           IN IF value.ok
                              THEN Then(value.text,
                                        FormatText(SubSeq(s, j + 1, Len(s)), kwargs))
                              ELSE FormatFailed
    ELSE IF s[1] = "}"
         THEN IF Len(s) >= 2 /\ s[2] = "}"
              THEN Then(<<"}">>, FormatText(SubSeq(s, 3, Len(s)), kwargs))
              ELSE FormatFailed
    ELSE Then(<<s[1]>>, FormatText(Tail(s), kwargs))

\* safe_name = report.name or <unnamed>; NAME=safe_name, DATE=report.date.isoformat()
FilenameKwargs(report) ==
    << <<kNAME, IF report.name = <<>> THEN Unnamed ELSE report.name>>,
       <<kDATE, isoformat(report.date)>> >>

FilenameLenient(pattern, report) == FormatLenient(pattern, FilenameKwargs(report))

\* filename = cfg.filename_pattern.format(NAME=safe_name, DATE=...)
Filename(pattern, report) == FormatText(pattern, FilenameKwargs(report))

(***************************************************************************)
(* SpecFormat: the pattern the settings form stores, and the filename an   *)
(* export makes of it.                                                     *)
(***************************************************************************)
PatternPieces ==
    { <<"{", "N", "A", "M", "E", "}">>,
      <<"{", "D", "A", "T", "E", "}">>,
      <<"{", "F", "O", "O", "}">>,
      <<"{">>, <<"}">>, <<"{", "{">>, <<"}", "}">>,
      <<"_">>, <<" ">>, <<"N", "A", "M", "E">> }

RECURSIVE PatternsOf(_)
PatternsOf(n) ==
    IF n = 0 THEN { <<>> }
    ELSE PatternsOf(n - 1)
         \cup { p \o q : p \in PatternsOf(n - 1), q \in PatternPieces }

\* what is typed into the form's filename_pattern field
PatternInputs == PatternsOf(MaxPatPieces)

\* the name and the date of the report exported
FormatReports ==
    { [name |-> n, date |-> d] :
        n \in { <<>>, <<"A", "l">>, <<"{", "D", "A", "T", "E", "}">>,
                <<"{", "{">>, <<"{", "F", "O", "O", "}">> },
        d \in { Date1, Date2 } }

InitFormat ==
    /\ fmtCfg = DefaultPattern
    /\ fmtReport = None
    /\ fmtOut = None
    /\ RenderIdle
    /\ AppIdle

\* settings, POST without a file: the pattern is stored
FmtSettings ==
    /\ \E raw \in PatternInputs : fmtCfg' = SettingsPattern(raw)
    /\ fmtReport' = None
    /\ fmtOut' = None
    /\ UNCHANGED <<renderVars, appVars>>

\* export_report up to the filename
FmtExport ==
    /\ \E report \in FormatReports :
          /\ fmtReport' = Some(report)
          /\ fmtOut' = Some(Filename(fmtCfg, report))
    /\ UNCHANGED <<fmtCfg, renderVars, appVars>>

NextFormat == FmtSettings \/ FmtExport

SpecFormat == InitFormat /\ [][NextFormat]_vars

(***************************************************************************)
(* Claims about the filename, checked under SpecFormat.                    *)
(***************************************************************************)
NameToken == <<"{">> \o kNAME \o <<"}">>
DateToken == <<"{">> \o kDATE \o <<"}">>

\* every brace of the pattern belongs to a {NAME} or a {DATE}
RECURSIVE SimplePattern(_)
SimplePattern(s) ==
    IF s = <<>> THEN TRUE
    ELSE IF Head(s) \notin {"{", "}"} THEN SimplePattern(Tail(s))
    ELSE \E t \in {NameToken, DateToken} :
            StartsWith(s, t) /\ SimplePattern(SubSeq(s, Len(t) + 1, Len(s)))

\* one scan, left to right: {NAME} and {DATE} become their values, every
\* other character stays
RECURSIVE SubstOnce(_, _, _)
SubstOnce(s, name, date) ==
    IF s = <<>> THEN <<>>
    ELSE IF StartsWith(s, NameToken)
         THEN name \o SubstOnce(SubSeq(s, Len(NameToken) + 1, Len(s)), name, date)
    ELSE IF StartsWith(s, DateToken)
         THEN date \o SubstOnce(SubSeq(s, Len(DateToken) + 1, Len(s)), name, date)
    ELSE <<Head(s)>> \o SubstOnce(Tail(s), name, date)

\* the number of { that end at position i of s, one after the other
RECURSIVE OpenRun(_, _)
OpenRun(s, i) == IF i >= 1 /\ s[i] = "{" THEN 1 + OpenRun(s, i - 1) ELSE 0

\* the braces i..j of s are a field (the { is not half of a {{) whose name is
\* neither NAME nor DATE
UnknownFieldAt(s, i, j) ==
    /\ s[i] = "{"
    /\ s[j] = "}"
    /\ OpenRun(s, i) % 2 = 1
    /\ j > i + 1
    /\ BraceFree(SubSeq(s, i + 1, j - 1))
    /\ SubSeq(s, i + 1, j - 1) \notin {kNAME, kDATE}

HasUnknownField(s) ==
    \E i \in 1..Len(s) : \E j \in (i + 1)..Len(s) : UnknownFieldAt(s, i, j)

Exported == fmtOut # None

TemplateName == <<"w", "e", "e", "k", "l", "y", "_", "r", "e", "p", "o", "r", "t", "_", "t", "e", "m", "p", "l", "a", "t", "e", ".", "d", "o", "c", "x">>

\* get_template_path(): UPLOAD_DIR / "weekly_report_template.docx"
get_template_path == TemplateName

\* has_template()
has_template(dir) == get_template_path \in DOMAIN dir

Docx(doc) == [kind |-> "docx", doc |-> Some(doc)]
Junk == [kind |-> "junk", doc |-> None]
Partial == [kind |-> "partial", doc |-> None]

\* the directory after the file `name` got the content `content`
WriteFile(dir, name, content) ==
    [n \in DOMAIN dir \cup {name} |-> IF n = name THEN content ELSE dir[n]]

\* s.lower(), on the letters an upload's name is made of
LowerChar(c) ==
    CASE c = "D" -> "d" [] c = "O" -> "o" [] c = "C" -> "c" [] c = "X" -> "x"
      [] c = "T" -> "t" [] OTHER -> c
Lower(s) == [i \in 1..Len(s) |-> LowerChar(s[i])]

DotDocx == <<".", "d", "o", "c", "x">>

\* the template the application is given: {{NA|ME}} and {{SUMMARY}} in the
\* body, {{DATE}} in the footer
AppTemplate ==
    TemplateDoc(1, "body", 1,
                << << <<"{", "{", "N", "A">>, <<"M", "E", "}", "}">> >>, << tSUMMARY >> >>,
                << << tDATE >> >>)

\* the files the settings form is given: a name and the bytes
Uploads ==
    { [filename |-> <<"t", ".", "d", "o", "c", "x">>, content |-> Docx(AppTemplate)],
      [filename |-> <<"T", ".", "D", "O", "C", "X">>, content |-> Junk],
      [filename |-> <<"t", ".", "t", "x", "t">>, content |-> Docx(AppTemplate)] }

\* the patterns the settings form is given
AppPatterns ==
    { <<>>, TemplateName, <<" ">>, <<"{", "F", "O", "O", "}", ".", "d", "o", "c", "x">> }

\* the rows the report form is given; a date the calendar does not have is
\* refused
AppReports ==
    { [name |-> <<" ", "A", "l">>, date |-> d, summary |-> sm, plan |-> <<"p">>] :
        d \in { Date1, [y |-> 2024, m |-> 13, d |-> 1] },
        sm \in { <<"s">>, <<"t">> } }

\* date(y, m, d) raises ValueError unless the calendar has the day
DaysIn(y, m) ==
    IF m \in {4, 6, 9, 11} THEN 30
    ELSE IF m = 2 THEN (IF (y % 4 = 0 /\ y % 100 # 0) \/ y % 400 = 0 THEN 29 ELSE 28)
    ELSE 31
ValidDate(d) ==
    /\ d.y \in 1..9999
    /\ d.m \in 1..12
    /\ d.d \in 1..DaysIn(d.y, d.m)

Requests == 1..NumRequests

NoLocals == [report_id |-> 0, report |-> None, filename |-> <<>>, doc |-> None]
NoResponse ==
    [request |-> 0, status |-> 0, report_id |-> 0, filename |-> <<>>, doc |-> None,
     body |-> None]
Response(p, status) == [NoResponse EXCEPT !.request = p, !.status = status]

\* what is left of a request that has ended: the report it was for
Ended(l) == [NoLocals EXCEPT !.report_id = l.report_id]

Init ==
    /\ reports = <<>>
    /\ cfg = DefaultPattern
    /\ files = <<>>
    /\ spc = "idle"
    /\ spend = <<>>
    /\ pc = [p \in Requests |-> "idle"]
    /\ loc = [p \in Requests |-> NoLocals]
    /\ resp = NoResponse
    /\ RenderIdle
    /\ FmtIdle

\* new_report, POST
new_report ==
    /\ Len(reports) < MaxReports
    /\ \E form \in AppReports :
          reports' = IF ValidDate(form.date)
                     THEN Append(reports, [form EXCEPT !.name = Strip(form.name)])
                     ELSE reports
    /\ UNCHANGED <<cfg, files, spc, spend, pc, loc, resp, renderVars, fmtVars>>

\* settings, POST, up to f.save(template_path) opening the template file:
\* without a file the pattern is committed; a file whose name does not end in
\* .docx ends the request before the commit; else the file is opened
settings_post ==
    /\ spc = "idle"
    /\ \E raw \in AppPatterns, withFile \in BOOLEAN, f \in Uploads :
          LET filename_pattern == SettingsPattern(raw)
          IN IF ~withFile
             THEN /\ cfg' = filename_pattern
                  /\ UNCHANGED <<files, spc, spend>>
             ELSE IF ~EndsWith(Lower(f.filename), DotDocx)
             THEN UNCHANGED <<cfg, files, spc, spend>>
             ELSE /\ files' = WriteFile(files, get_template_path, Partial)
                  /\ spc' = "saving"
                  /\ spend' = Some([pattern |-> filename_pattern, content |-> f.content])
                  /\ UNCHANGED cfg
    /\ UNCHANGED <<reports, pc, loc, resp, renderVars, fmtVars>>

\* settings, POST: f.save writes the upload to its end, then db.session.commit()
settings_save ==
    /\ spc = "saving"
    /\ files' = WriteFile(files, get_template_path, The(spend).content)
    /\ cfg' = The(spend).pattern
    /\ spc' = "idle"
    /\ spend' = <<>>
    /\ UNCHANGED <<reports, pc, loc, resp, renderVars, fmtVars>>

\* export_report up to the output path (the requests are numbered in the
\* order they arrive): 404 for no such report, a redirect
\* without a template, the exception of str.format for a pattern it refuses
export_begin(p) ==
    /\ pc[p] = "idle"
    /\ \A q \in Requests : q < p => pc[q] # "idle"
    /\ \E report_id \in 1..MaxReports :
          IF report_id > Len(reports)
          THEN /\ resp' = Response(p, 404)
               /\ pc' = [pc EXCEPT ![p] = "done"]
               /\ UNCHANGED loc
          ELSE IF ~has_template(files)
          THEN /\ resp' = Response(p, 302)
               /\ pc' = [pc EXCEPT ![p] = "done"]
               /\ UNCHANGED loc
          ELSE LET report == reports[report_id]
                   filename == Filename(cfg, report)
               IN IF ~filename.ok
                  THEN /\ resp' = Response(p, 500)
                       /\ pc' = [pc EXCEPT ![p] = "done"]
                       /\ UNCHANGED loc
                  ELSE /\ loc' = [loc EXCEPT ![p] =
                                     [NoLocals EXCEPT !.report_id = report_id,
                                                      !.report = Some(report),
                                                      !.filename = filename.text]]
                       /\ pc' = [pc EXCEPT ![p] = "load"]
                       /\ UNCHANGED resp
    /\ UNCHANGED <<reports, cfg, files, spc, spend, renderVars, fmtVars>>

\* render_docx_template: Document(template_path) and the replacements; bytes
\* that are no document raise
export_load(p) ==
    /\ pc[p] = "load"
    /\ LET template == files[get_template_path]
       IN IF template.kind # "docx"
          THEN /\ resp' = [Response(p, 500) EXCEPT !.filename = loc[p].filename]
               /\ pc' = [pc EXCEPT ![p] = "done"]
               /\ loc' = [loc EXCEPT ![p] = Ended(loc[p])]
          ELSE /\ loc' = [loc EXCEPT ![p].doc =
                              Some(RenderDoc(The(template.doc),
                                             ExportContext(The(loc[p].report))))]
               /\ pc' = [pc EXCEPT ![p] = "save"]
               /\ UNCHANGED resp
    /\ UNCHANGED <<reports, cfg, files, spc, spend, renderVars, fmtVars>>

\* render_docx_template: doc.save(output_path) opens UPLOAD_DIR / filename for
\* writing; an empty filename names the directory itself and raises
export_open(p) ==
    /\ pc[p] = "save"
    /\ IF loc[p].filename = <<>>
       THEN /\ resp' = Response(p, 500)
            /\ pc' = [pc EXCEPT ![p] = "done"]
            /\ loc' = [loc EXCEPT ![p] = Ended(loc[p])]
            /\ UNCHANGED files
       ELSE /\ files' = WriteFile(files, loc[p].filename, Partial)
            /\ pc' = [pc EXCEPT ![p] = "write"]
            /\ UNCHANGED <<loc, resp>>
    /\ UNCHANGED <<reports, cfg, spc, spend, renderVars, fmtVars>>

\* render_docx_template: doc.save writes the document to its end
export_write(p) ==
    /\ pc[p] = "write"
    /\ files' = WriteFile(files, loc[p].filename, Docx(The(loc[p].doc)))
    /\ pc' = [pc EXCEPT ![p] = "send"]
    /\ UNCHANGED <<reports, cfg, spc, spend, loc, resp, renderVars, fmtVars>>

\* render_docx_template: doc.save raises before the end (the disk is full);
\* nothing catches the exception and nothing removes the file
export_write_fails(p) ==
    /\ pc[p] = "write"
    /\ resp' = [Response(p, 500) EXCEPT !.filename = loc[p].filename]
    /\ pc' = [pc EXCEPT ![p] = "done"]
    /\ loc' = [loc EXCEPT ![p] = Ended(loc[p])]
    /\ UNCHANGED <<reports, cfg, files, spc, spend, renderVars, fmtVars>>

\* send_file(output_path): the response carries what the file holds now
export_send(p) ==
    /\ pc[p] = "send"
    /\ resp' = [request |-> p, status |-> 200, report_id |-> loc[p].report_id,
                filename |-> loc[p].filename,
                doc |-> loc[p].doc, body |-> Some(files[loc[p].filename])]
    /\ pc' = [pc EXCEPT ![p] = "done"]
    /\ loc' = [loc EXCEPT ![p] = Ended(loc[p])]
    /\ UNCHANGED <<reports, cfg, files, spc, spend, renderVars, fmtVars>>

Next ==
    \/ new_report
    \/ settings_post
    \/ settings_save
    \/ \E p \in Requests : export_begin(p)
    \/ \E p \in Requests : export_load(p)
    \/ \E p \in Requests : export_open(p)
    \/ \E p \in Requests : export_write(p)
    \/ \E p \in Requests : export_write_fails(p)
    \/ \E p \in Requests : export_send(p)

Spec == Init /\ [][Next]_vars

(***************************************************************************)
(* Claims about the application, checked under Spec.                       *)
(***************************************************************************)

\* C2: whatever the settings were (any filename pattern), a step of an export
\* leaves the file at get_template_path() as it was.
C2_ExportKeepsTemplate ==
    [][(pc' # pc /\ has_template(files))
          => (has_template(files')
              /\ files'[get_template_path] = files[get_template_path])]_vars

\* C7: when the export answered last has failed (the template was no
\* document, or saving failed) and nothing else is running, the output path
\* holds no partial file.
C7_NoOutputOnFailure ==
    (/\ resp.status = 500
     /\ resp.filename # <<>>
     /\ spc = "idle"
     /\ \A q \in Requests : pc[q] \in {"idle", "done"})
    => ~(/\ resp.filename \in DOMAIN files
         /\ files[resp.filename].kind = "partial")

\* C9: of two exports of two different reports, interleaved in any way, each
\* delivers the document it rendered itself from the template and its own
\* context (the output file is not the template file, so that no settings
\* request writes to it).
C9_DeliversOwnRender ==
    \A q \in Requests :
        (/\ resp.status = 200
         /\ resp.filename # get_template_path
         /\ q # resp.request
         /\ loc[q].report_id \notin {0, resp.report_id})
        => resp.body = Some(Docx(The(resp.doc)))

====
